---- MODULE Spec2Model ----
(***************************************************************************)
(* Inventory depletion and sale-note engine of the bakery system API.      *)
(*                                                                         *)
(* The database tables (products, users, products_batch, sales) are the    *)
(* state.  One action models one service call; a service call that commits *)
(* several times (SaleService.add on a sale note, confirm_sale,            *)
(* cancel_sale_note) is modelled with every commit it performs.            *)
(* Quantities and prices are modelled as integers (the columns are Float). *)
(***************************************************************************)
EXTENDS Integers, Sequences, FiniteSets, TLC

\* ------------------------------------------------------------------ bounds
MaxQty == 2        \* largest quantity of a seeded batch
MaxSaleQty == 3    \* largest quantity a sale request asks for
MaxCodes == 2      \* number of sale codes (checkouts) that persist rows
MaxIds == 3        \* number of Sale row ids handed out
MaxValidity == 3   \* expiry dates are 1..MaxValidity
MaxIngredients == 2         \* rows of the ingredients table
MaxIngredientBatches == 3   \* rows of the ingredients_batch table
MaxRecipe == 2              \* portions in the recipe of a product request

\* validity is nullable: NoValidity stands for NULL
NoValidity == 0

ProductIds == {"p1", "p2"}
UserIds == {"u1", "u2"}
Prices == {1, 2}
BatchIds == {1, 2, 3, 4}
Sessions == {"t1", "t2"}

Validities == 0..MaxValidity
SaleQuantities == (-1)..MaxSaleQty

\* an id that no products row carries
UnknownProductId == "p0"

\* SaleRequest: product_id, user_id, quantity (no constraint on quantity)
SaleRequests ==
    [product_id : ProductIds \cup {UnknownProductId}, user_id : UserIds, quantity : SaleQuantities]

\* what identifies an ingredient: name, mark, measure, description, value
IngredientKeys ==
    [name : {"flour", "sugar"}, mark : {"x"}, measure : {"kg"},
     description : {"d1", "d2"}, value : {1}]

\* IngredientRequest: the ingredient fields and the quantity of its batch
IngredientRequests == [key : IngredientKeys, quantity : {1, MaxQty}]

\* IngredientBatchModel: owner and quantity; the owner may be an unknown id
IngredientBatchModels == [ingredient_id : 1..(MaxIngredients + 1), quantity : {1, MaxQty}]

\* the recipe of a ProductRequest: the ingredient_id of each PortionRequest
\* (None and the empty list are both NoRecipe)
NoRecipe == <<>>

Recipes == UNION {[1..n -> 1..(MaxIngredients + 1)] : n \in 0..MaxRecipe}

VARIABLES
    products,   \* products table: id -> [price_sale]
    users,      \* users table: set of ids
    batches,    \* products_batch table: id -> [product_id, validity, quantity]
    sales,      \* sales table, in created_at order: sequence of Sale rows
    nextCode,   \* number of sale codes generated so far, plus one
    nextId,     \* number of Sale ids generated so far, plus one
    txn,        \* per concurrent transaction: what its session holds
    ingredients,        \* ingredients table, in insertion order: row i has id i
    ingredients_batch,  \* ingredients_batch table, in insertion order
    portions,   \* portions table, in insertion order: [product_id, ingredient_id]
    last        \* the last service call and its outcome

vars == <<products, users, batches, sales, nextCode, nextId, txn,
          ingredients, ingredients_batch, portions, last>>

\* ----------------------------------------------------------------- helpers
RECURSIVE SumSeq(_)
SumSeq(s) == IF s = <<>> THEN 0 ELSE Head(s) + SumSeq(Tail(s))

RECURSIVE SumOver(_, _)
SumOver(f, S) ==
    IF S = {} THEN 0
    ELSE LET x == CHOOSE y \in S : TRUE IN f[x] + SumOver(f, S \ {x})

RECURSIVE SelectRows(_, _)
SelectRows(rows, code) ==
    IF rows = <<>> THEN <<>>
    ELSE IF Head(rows).sale_code = code
         THEN <<Head(rows)>> \o SelectRows(Tail(rows), code)
         ELSE SelectRows(Tail(rows), code)

RECURSIVE Reverse(_)
Reverse(s) == IF s = <<>> THEN <<>> ELSE Reverse(Tail(s)) \o <<Head(s)>>

Range(s) == {s[i] : i \in 1..Len(s)}

BatchesOf(bs, p) == {b \in DOMAIN bs : bs[b].product_id = p}

StockOf(bs, p) == SumOver([b \in DOMAIN bs |-> bs[b].quantity], BatchesOf(bs, p))

\* ORDER BY validity ASC: NULLs sort first or last depending on the store,
\* rows with equal validity come in any order.
ValidityLeq(a, b, nullsFirst) ==
    IF a = NoValidity THEN nullsFirst \/ b = NoValidity
    ELSE IF b = NoValidity THEN ~nullsFirst
    ELSE a <= b

OrderByValidity(bs, p) ==
    LET S == BatchesOf(bs, p)
        n == Cardinality(S)
    IN  { f \in [1..n -> S] :
            /\ \A i, j \in 1..n : i # j => f[i] # f[j]
            /\ \E nullsFirst \in BOOLEAN :
                 \A i, j \in 1..n :
                    i < j => ValidityLeq(bs[f[i]].validity, bs[f[j]].validity, nullsFirst) }

\* ------------------------------------------------- SaleRepository.add
\* the for-loop of local_add over the ordered batches
RECURSIVE DepleteLoop(_, _, _, _)
DepleteLoop(bs, order, i, products_sold) ==
    IF i > Len(order) \/ products_sold <= 0 THEN bs
    ELSE LET b == order[i] IN
         IF bs[b].quantity > products_sold
         THEN DepleteLoop([bs EXCEPT ![b].quantity = @ - products_sold], order, i + 1, 0)
         ELSE DepleteLoop([bs EXCEPT ![b].quantity = 0], order, i + 1,
                          products_sold - bs[b].quantity)

\* local_add without its stock check (lines 65-68)
LocalAddErrorNoStockCheck(ps, us, bs, model) ==
    IF model.product_id \notin DOMAIN ps THEN "product_not_found"
    ELSE IF model.user_id \notin us THEN "user_not_found"
    ELSE IF BatchesOf(bs, model.product_id) = {} THEN "product_batch_not_found"
    ELSE "none"

\* local_add without its user lookup (lines 41-48)
LocalAddErrorNoUserCheck(ps, us, bs, model) ==
    IF model.product_id \notin DOMAIN ps THEN "product_not_found"
    ELSE IF BatchesOf(bs, model.product_id) = {} THEN "product_batch_not_found"
    ELSE IF StockOf(bs, model.product_id) < model.quantity THEN "not_enough_product_in_stock"
    ELSE "none"

\* local_add without its empty-batch-list check (lines 60-63)
LocalAddErrorNoBatchCheck(ps, us, bs, model) ==
    IF model.product_id \notin DOMAIN ps THEN "product_not_found"
    ELSE IF model.user_id \notin us THEN "user_not_found"
    ELSE IF StockOf(bs, model.product_id) < model.quantity THEN "not_enough_product_in_stock"
    ELSE "none"

\* local_add: the checks in the order of the code, then the depletion
LocalAddError(ps, us, bs, model) ==
    IF model.product_id \notin DOMAIN ps THEN "product_not_found"
    ELSE IF model.user_id \notin us THEN "user_not_found"
    ELSE IF BatchesOf(bs, model.product_id) = {} THEN "product_batch_not_found"
    ELSE IF StockOf(bs, model.product_id) < model.quantity THEN "not_enough_product_in_stock"
    ELSE "none"

\* (a depletion that would take the whole quantity from the first batch)
LocalAddOverdrawing(bs, order, model) ==
    [bs EXCEPT ![order[1]].quantity = @ - model.quantity]

\* (a depletion that would drop the batches it empties)
LocalAddPruning(bs, order, model) ==
    LET out == DepleteLoop(bs, order, 1, model.quantity)
    IN  [b \in {x \in DOMAIN out : out[x].quantity > 0} |-> out[b]]

LocalAdd(bs, order, model) == DepleteLoop(bs, order, 1, model.quantity)

\* code_generator() and id_generator() return uuid4 strings: a value no
\* earlier call returned
\* a generator that hands out its previous value again
CodeGeneratorRepeating == IF nextCode > 1 THEN nextCode - 1 ELSE nextCode

CodeGenerator == nextCode

IdGenerator(k) == nextId + k - 1

\* SaleModel.is_paid: a new Sale row is unpaid
DefaultIsPaid == FALSE

\* map_request_to_model: value is fixed from the price at that moment
MapRequestError(ps, request) ==
    IF request.product_id \notin DOMAIN ps THEN "product_not_found" ELSE "none"

MapRequestToModel(ps, request, sale_code, id) ==
    [ id |-> id,
      product_id |-> request.product_id,
      user_id |-> request.user_id,
      quantity |-> request.quantity,
      value |-> ps[request.product_id].price_sale * request.quantity,
      is_paid |-> DefaultIsPaid,
      sale_code |-> sale_code ]

\* (a get that would lose its sale_code filter)
GetBySaleCodeUnfiltered(rows, sale_code) == Reverse(rows)

\* get(sale_code=..., all_results=True): ORDER BY created_at DESC; a sale
\* code is a path parameter and so never the empty string
GetBySaleCode(rows, sale_code) == Reverse(SelectRows(rows, sale_code))

\* get_sale_note_data: None when no row matches or the seller is gone
NoData == [found |-> FALSE, employee |-> "", products |-> {}, sales |-> <<>>]

GetSaleNoteData(ps, us, rows, sale_code) ==
    LET result == GetBySaleCode(rows, sale_code) IN
    IF result = <<>> THEN NoData
    ELSE LET product_ids == {result[i].product_id : i \in 1..Len(result)}
             user_id == result[1].user_id
         IN  IF user_id \notin us THEN NoData
             ELSE [found |-> TRUE, employee |-> user_id,
                   products |-> product_ids \cap DOMAIN ps, sales |-> result]

\* build_sale_note_response: map_model_to_response is a plain (non-async)
\* method, so awaiting its result raises TypeError for the first sale row
NoResponse == [returned |-> FALSE, seller |-> "", products |-> {}, notes |-> <<>>, total_value |-> 0]

BuildSaleNoteResponse(employee, prods, rows) ==
    IF rows # <<>> THEN NoResponse
    ELSE [returned |-> TRUE, seller |-> employee, products |-> prods, notes |-> rows,
          total_value |-> SumSeq([i \in 1..Len(rows) |-> rows[i].value])]

\* the tail of SaleService.add / confirm_sale: unpack the note data and build
NoteResponse(ps, us, rows, sale_code) ==
    LET data == GetSaleNoteData(ps, us, rows, sale_code) IN
    IF ~data.found THEN NoResponse
    ELSE BuildSaleNoteResponse(data.employee, data.products, data.sales)

\* a transaction that has not started: no Sale model, no modified batch
NoModel == [id |-> 0, product_id |-> "", user_id |-> "", quantity |-> 0, value |-> 0,
            is_paid |-> FALSE, sale_code |-> 0]

IdleTxn == [pc |-> "idle", model |-> NoModel, dirty |-> <<>>]

\* the service call just made: its name, the error it raised, what it returned
Call(op, err, resp) == [op |-> op, err |-> err, response |-> resp]

\* ---------------------------------------------------- SaleService.add
\* one SaleRequest: generate the code, map, repository.add (one commit),
\* then await map_model_to_response(model), which raises TypeError
AddSaleRequest(request) ==
    /\ nextCode <= MaxCodes
    /\ nextId <= MaxIds
    /\ LET err1 == MapRequestError(products, request)
           sale_code == CodeGenerator
           model == MapRequestToModel(products, request, sale_code, IdGenerator(1))
           err2 == IF err1 # "none" THEN err1
                   ELSE LocalAddError(products, users, batches, model)
       IN  IF err2 # "none"
           THEN /\ last' = Call("add_sale", err2, NoResponse)
                /\ UNCHANGED <<products, users,
                               ingredients, ingredients_batch, batches, sales, nextCode, nextId, txn, portions>>
           ELSE \E order \in OrderByValidity(batches, request.product_id) :
                /\ batches' = LocalAdd(batches, order, model)
                /\ sales' = Append(sales, model)
                /\ nextCode' = nextCode + 1
                /\ nextId' = nextId + 1
                /\ last' = Call("add_sale", "type_error", NoResponse)
                /\ UNCHANGED <<products, users, ingredients, ingredients_batch, txn, portions>>

\* a SaleNoteRequest: the items are mapped and added one by one, and
\* repository.add commits after each item
RECURSIVE NoteLoop(_, _, _, _, _, _, _)
NoteLoop(ps, us, bs, rows, reqs, sale_code, k) ==
    IF k > Len(reqs) THEN {[batches |-> bs, sales |-> rows, err |-> "none", rows |-> k - 1]}
    ELSE LET err1 == MapRequestError(ps, reqs[k])
             model == MapRequestToModel(ps, reqs[k], sale_code, IdGenerator(k))
             err2 == IF err1 # "none" THEN err1 ELSE LocalAddError(ps, us, bs, model)
         IN  IF err2 # "none"
             THEN {[batches |-> bs, sales |-> rows, err |-> err2, rows |-> k - 1]}
             ELSE UNION { NoteLoop(ps, us, LocalAdd(bs, order, model), Append(rows, model),
                                   reqs, sale_code, k + 1)
                          : order \in OrderByValidity(bs, reqs[k].product_id) }

AddSaleNoteRequest(reqs) ==
    /\ nextCode <= MaxCodes
    /\ nextId + Len(reqs) - 1 <= MaxIds
    /\ \E out \in NoteLoop(products, users, batches, sales, reqs, CodeGenerator, 1) :
        LET resp == IF out.err = "none"
                    THEN NoteResponse(products, users, out.sales, CodeGenerator)
                    ELSE NoResponse
            err == IF out.err # "none" THEN out.err
                   ELSE IF resp.returned THEN "none" ELSE "type_error"
        IN  /\ batches' = out.batches
            /\ sales' = out.sales
            /\ nextCode' = IF out.rows > 0 THEN nextCode + 1 ELSE nextCode
            /\ nextId' = nextId + out.rows
            /\ last' = Call("add_note", err, resp)
            /\ UNCHANGED <<products, users, ingredients, ingredients_batch, txn, portions>>

\* ------------------------------------------------ SaleService.confirm_sale
\* every row of the code gets is_paid = True and is committed; the note is
\* then assembled as in SaleService.add

\* (a confirm without the sale_code filter)
ConfirmRowsAll(rows, sale_code) ==
    [i \in 1..Len(rows) |-> [rows[i] EXCEPT !.is_paid = TRUE]]

\* (a confirm that would also void the quantity of the rows it pays)
ConfirmRowsVoiding(rows, sale_code) ==
    [i \in 1..Len(rows) |->
        IF rows[i].sale_code = sale_code
        THEN [rows[i] EXCEPT !.is_paid = TRUE, !.quantity = 0] ELSE rows[i]]

\* (a confirm that would mark the rows of every other code unpaid)
ConfirmRowsExclusive(rows, sale_code) ==
    [i \in 1..Len(rows) |-> [rows[i] EXCEPT !.is_paid = (rows[i].sale_code = sale_code)]]

ConfirmRows(rows, sale_code) ==
    [i \in 1..Len(rows) |->
        IF rows[i].sale_code = sale_code THEN [rows[i] EXCEPT !.is_paid = TRUE] ELSE rows[i]]

ConfirmSale(sale_code) ==
    IF GetBySaleCode(sales, sale_code) = <<>>
    THEN /\ last' = Call("confirm_sale", "sale_note_not_found", NoResponse)
         /\ UNCHANGED <<products, users,
                        ingredients, ingredients_batch, batches, sales, nextCode, nextId, txn, portions>>
    ELSE LET rows == ConfirmRows(sales, sale_code)
             resp == NoteResponse(products, users, rows, sale_code)
         IN  /\ sales' = rows
             /\ last' = Call("confirm_sale",
                             IF resp.returned THEN "none" ELSE "type_error", resp)
             /\ UNCHANGED <<products, users,
                            ingredients, ingredients_batch, batches, nextCode, nextId, txn, portions>>

\* -------------------------------------------- SaleService.cancel_sale_note
\* SaleRepository.delete(model=sale) for every row of the code

\* (a DELETE without its WHERE clause)
DeleteRowsNoWhere(rows, ids) == <<>>

RECURSIVE DeleteRows(_, _)
DeleteRows(rows, ids) ==
    IF rows = <<>> THEN <<>>
    ELSE IF Head(rows).id \in ids THEN DeleteRows(Tail(rows), ids)
         ELSE <<Head(rows)>> \o DeleteRows(Tail(rows), ids)

CancelSaleNote(sale_code) ==
    LET found == GetBySaleCode(sales, sale_code) IN
    IF found = <<>>
    THEN /\ last' = Call("cancel_sale_note", "sale_note_not_found", NoResponse)
         /\ UNCHANGED <<products, users,
                        ingredients, ingredients_batch, batches, sales, nextCode, nextId, txn, portions>>
    ELSE /\ sales' = DeleteRows(sales, {found[i].id : i \in 1..Len(found)})
         /\ last' = Call("cancel_sale_note", "none", NoResponse)
         /\ UNCHANGED <<products, users,
                        ingredients, ingredients_batch, batches, nextCode, nextId, txn, portions>>

\* ------------------------------------- SaleService.get_sale_note_by_sale_code
\* get_sale_note_data returns None for no rows or a missing seller, and the
\* caller unpacks the result into three names before testing it: TypeError.
\* With data, the note is assembled as in SaleService.add.  Nothing is written.
GetSaleNoteBySaleCode(sale_code) ==
    LET data == GetSaleNoteData(products, users, sales, sale_code)
        resp == IF data.found /\ data.products # {}
                THEN BuildSaleNoteResponse(data.employee, data.products, data.sales)
                ELSE NoResponse
        err == IF ~data.found THEN "type_error"
               ELSE IF data.products = {} THEN "sale_note_not_found"
               ELSE IF resp.returned THEN "none" ELSE "type_error"
    IN  /\ last' = Call("get_sale_note", err, resp)
        /\ UNCHANGED <<products, users,
                       ingredients, ingredients_batch, batches, sales, nextCode, nextId, txn, portions>>

\* --------------------------------------------------- ProductService.update
\* only price_sale is modelled among the fields of ProductUpdate

\* (an update that would also re-price the Sale rows of the product)
UpdateProductRepricing(product_id, price_sale) ==
    IF product_id \notin DOMAIN products
    THEN /\ last' = Call("update_product", "product_not_found", NoResponse)
         /\ UNCHANGED <<products, users,
                        ingredients, ingredients_batch, batches, sales, nextCode, nextId, txn, portions>>
    ELSE /\ products' = [products EXCEPT ![product_id].price_sale = price_sale]
         /\ sales' = [i \in 1..Len(sales) |->
                         IF sales[i].product_id = product_id
                         THEN [sales[i] EXCEPT !.value = price_sale * sales[i].quantity]
                         ELSE sales[i]]
         /\ last' = Call("update_product", "none", NoResponse)
         /\ UNCHANGED <<users, ingredients, ingredients_batch, batches, nextCode, nextId, txn, portions>>

UpdateProduct(product_id, price_sale) ==
    IF product_id \notin DOMAIN products
    THEN /\ last' = Call("update_product", "product_not_found", NoResponse)
         /\ UNCHANGED <<products, users,
                        ingredients, ingredients_batch, batches, sales, nextCode, nextId, txn, portions>>
    ELSE /\ products' = [products EXCEPT ![product_id].price_sale = price_sale]
         /\ last' = Call("update_product", "none", NoResponse)
         /\ UNCHANGED <<users,
                        ingredients, ingredients_batch, batches, sales, nextCode, nextId, txn, portions>>

\* ------------------------------------------------------- ingredient ledger
\* an ingredients row that was deleted keeps its place: ids are never reused
NoIngredient == [name |-> "", mark |-> "", measure |-> "", description |-> "", value |-> 0]

IngredientExists(rows, id) == id \in 1..Len(rows) /\ rows[id] # NoIngredient

\* IngredientService.add looks the ingredient up by name, mark and measure
\* (filter_by(...).first(), no ORDER BY: any matching row); a match gets the
\* request as a new batch, otherwise the ingredient and its first batch are
\* inserted together
SameNameMarkMeasure(a, b) ==
    a.name = b.name /\ a.mark = b.mark /\ a.measure = b.measure

\* (an add that would not look for the ingredient first)
IngredientServiceAddNoLookup(request) ==
    /\ Len(ingredients_batch) < MaxIngredientBatches
    /\ Len(ingredients) < MaxIngredients
    /\ ingredients' = Append(ingredients, request.key)
    /\ ingredients_batch' = Append(ingredients_batch,
                                   [ingredient_id |-> Len(ingredients) + 1,
                                    quantity |-> request.quantity])
    /\ last' = Call("add_ingredient", "none", NoResponse)
    /\ UNCHANGED <<products, users, batches, sales, nextCode, nextId, txn, portions>>

IngredientServiceAdd(request) ==
    /\ Len(ingredients_batch) < MaxIngredientBatches
    /\ LET matches == {i \in 1..Len(ingredients) :
                          SameNameMarkMeasure(ingredients[i], request.key)}
       IN  IF matches # {}
           THEN \E ingredient_on_db \in matches :
                /\ ingredients_batch' = Append(ingredients_batch,
                                               [ingredient_id |-> ingredient_on_db,
                                                quantity |-> request.quantity])
                /\ ingredients' = ingredients
           ELSE /\ Len(ingredients) < MaxIngredients
                /\ ingredients' = Append(ingredients, request.key)
                /\ ingredients_batch' = Append(ingredients_batch,
                                               [ingredient_id |-> Len(ingredients) + 1,
                                                quantity |-> request.quantity])
    /\ last' = Call("add_ingredient", "none", NoResponse)
    /\ UNCHANGED <<products, users, batches, sales, nextCode, nextId, txn, portions>>

\* IngredientRepository.add: a row equal in all five fields is a Conflict
\* (more than one such row makes one_or_none raise, reported as ServerError)
IngredientRepositoryAdd(model) ==
    LET on_db == {i \in 1..Len(ingredients) : ingredients[i] = model} IN
    IF on_db # {}
    THEN /\ last' = Call("repository_add_ingredient",
                         IF Cardinality(on_db) = 1 THEN "ingredient_already_exists"
                         ELSE "server_error", NoResponse)
         /\ UNCHANGED <<products, users, ingredients, ingredients_batch, batches, sales,
                        nextCode, nextId, txn, portions>>
    ELSE /\ Len(ingredients) < MaxIngredients
         /\ ingredients' = Append(ingredients, model)
         /\ last' = Call("repository_add_ingredient", "none", NoResponse)
         /\ UNCHANGED <<products, users, ingredients_batch, batches, sales,
                        nextCode, nextId, txn, portions>>

\* IngredientRepository.add_batch: the owner is looked up before the insert
AddIngredientBatch(model) ==
    IF ~IngredientExists(ingredients, model.ingredient_id)
    THEN /\ last' = Call("add_ingredient_batch", "ingredient_not_found", NoResponse)
         /\ UNCHANGED <<products, users, ingredients, ingredients_batch, batches, sales,
                        nextCode, nextId, txn, portions>>
    ELSE /\ Len(ingredients_batch) < MaxIngredientBatches
         /\ ingredients_batch' = Append(ingredients_batch, model)
         /\ last' = Call("add_ingredient_batch", "none", NoResponse)
         /\ UNCHANGED <<products, users, ingredients, batches, sales,
                        nextCode, nextId, txn, portions>>

\* ----------------------------------------------------- ProductService reads
\* map_product_model_to_response: every batch row of the product is listed
\* and summed; batches stays None only when the product has no batch row
RECURSIVE BatchLoop(_, _, _)
BatchLoop(bs, todo, quantity) ==
    IF todo = {} THEN quantity
    ELSE LET batch == CHOOSE b \in todo : TRUE
         IN  BatchLoop(bs, todo \ {batch}, quantity + bs[batch].quantity)

MapProductModelToResponse(bs, product_id) ==
    LET batch_models == BatchesOf(bs, product_id)
    IN  [returned |-> TRUE, id |-> product_id,
         quantity |-> BatchLoop(bs, batch_models, 0),
         batches_is_none |-> batch_models = {},
         batches |-> batch_models]

GetProductById(product_id) ==
    /\ last' = IF product_id \notin DOMAIN products
               THEN Call("get_product", "product_not_found", NoResponse)
               ELSE Call("get_product", "none", MapProductModelToResponse(batches, product_id))
    /\ UNCHANGED <<products, users, ingredients, ingredients_batch, batches, sales,
                   nextCode, nextId, txn, portions>>

\* ------------------------------------------------------ ProductService.add
\* ids are uuid4 strings: the new product takes an id of ProductIdOrder that
\* no products row carries and no row refers to, a new batch row an id no
\* present batch row carries
ProductIdOrder == <<"p1">>

ReferencedProducts ==
    {batches[b].product_id : b \in DOMAIN batches}
      \cup {portions[k].product_id : k \in 1..Len(portions)}
      \cup {sales[i].product_id : i \in 1..Len(sales)}

FreshProductIds ==
    {i \in 1..Len(ProductIdOrder) :
        ProductIdOrder[i] \notin DOMAIN products \cup ReferencedProducts}

NewBatchId(bs) ==
    CHOOSE b \in BatchIds \ DOMAIN bs : \A c \in BatchIds \ DOMAIN bs : b <= c

InsertBatch(bs, product_id, validity, quantity) ==
    LET id == NewBatchId(bs)
    IN  [b \in DOMAIN bs \cup {id} |->
            IF b = id THEN [product_id |-> product_id, validity |-> validity,
                            quantity |-> quantity]
            ELSE bs[b]]

\* the loop over portion_models: add_portion commits every portion on its
\* own.  A portion of an unknown ingredient is decided by the foreign key:
\* where it is enforced the commit fails with IntegrityError and the loop
\* ends, where it is not the row is kept
RECURSIVE PortionLoop(_, _, _, _, _)
PortionLoop(rows, product_id, recipe, k, enforced) ==
    IF k > Len(recipe) THEN [portions |-> rows, err |-> "none"]
    ELSE IF ~IngredientExists(ingredients, recipe[k]) /\ enforced
         THEN [portions |-> rows, err |-> "integrity_error"]
         ELSE PortionLoop(Append(rows, [product_id |-> product_id,
                                        ingredient_id |-> recipe[k]]),
                          product_id, recipe, k + 1, enforced)

\* the product row, its one initial batch and every portion are committed
\* one after the other; nothing undoes an earlier commit when a later fails
AddProduct(request) ==
    /\ FreshProductIds # {}
    /\ BatchIds \ DOMAIN batches # {}
    /\ LET id == ProductIdOrder[CHOOSE i \in FreshProductIds :
                                   \A j \in FreshProductIds : i <= j]
           batch == InsertBatch(batches, id, request.validity, request.quantity)
       IN  /\ products' = [p \in DOMAIN products \cup {id} |->
                              IF p = id THEN [price_sale |-> request.price_sale]
                              ELSE products[p]]
           /\ batches' = batch
           /\ \E enforced \in BOOLEAN :
                 LET out == PortionLoop(portions, id, request.recipe, 1, enforced)
                 IN  /\ portions' = out.portions
                     /\ last' = IF out.err = "none"
                                THEN Call("add_product", "none",
                                          MapProductModelToResponse(batch, id))
                                ELSE Call("add_product", out.err, NoResponse)
    /\ UNCHANGED <<users, ingredients, ingredients_batch, sales, nextCode, nextId, txn>>

\* ------------------------------------------- ProductService.add_product_batch
\* the batch is inserted without looking the product up.  For an unknown
\* product the foreign key decides: a store that enforces it (PostgreSQL)
\* fails the commit with IntegrityError, a store that does not (SQLite as
\* the tests configure it) keeps the row, and the response mapping then
\* dereferences the missing product (AttributeError)

\* (an insert that would fold a batch into one of the same expiry)
AddProductBatchMerging(request) ==
    /\ request.product_id \in DOMAIN products
    /\ \E b \in BatchesOf(batches, request.product_id) :
          /\ batches[b].validity = request.validity
          /\ batches' = [batches EXCEPT ![b].quantity = @ + request.quantity]
          /\ last' = Call("add_product_batch", "none",
                          MapProductModelToResponse(batches', request.product_id))
    /\ UNCHANGED <<products, users, ingredients, ingredients_batch, sales,
                   nextCode, nextId, txn, portions>>

AddProductBatch(request) ==
    /\ BatchIds \ DOMAIN batches # {}
    /\ LET batch == InsertBatch(batches, request.product_id, request.validity,
                                request.quantity)
       IN  IF request.product_id \in DOMAIN products
           THEN /\ batches' = batch
                /\ last' = Call("add_product_batch", "none",
                                MapProductModelToResponse(batch, request.product_id))
           ELSE \/ /\ batches' = batches
                   /\ last' = Call("add_product_batch", "integrity_error", NoResponse)
                \/ /\ batches' = batch
                   /\ last' = Call("add_product_batch", "attribute_error", NoResponse)
    /\ UNCHANGED <<products, users, ingredients, ingredients_batch, sales,
                   nextCode, nextId, txn, portions>>

\* --------------------------------------- ProductService.update_product_batch
\* every field of ProductBatchUpdate that is not None overwrites the batch's
\* field (validity None is NoValidity; quantity None is has_quantity FALSE);
\* neither field is validated
UpdateProductBatch(product_batch_id, request) ==
    IF product_batch_id \notin DOMAIN batches
    THEN /\ last' = Call("update_product_batch", "product_batch_not_found", NoResponse)
         /\ UNCHANGED <<products, users, ingredients, ingredients_batch, batches, sales,
                        nextCode, nextId, txn, portions>>
    ELSE LET batch_model ==
                 [batches[product_batch_id] EXCEPT
                    !.validity = IF request.validity # NoValidity
                                 THEN request.validity ELSE @,
                    !.quantity = IF request.has_quantity THEN request.quantity ELSE @]
             bs == [batches EXCEPT ![product_batch_id] = batch_model]
         IN  /\ batches' = bs
             /\ last' = IF batch_model.product_id \in DOMAIN products
                        THEN Call("update_product_batch", "none",
                                  MapProductModelToResponse(bs, batch_model.product_id))
                        ELSE Call("update_product_batch", "attribute_error", NoResponse)
             /\ UNCHANGED <<products, users, ingredients, ingredients_batch, sales,
                            nextCode, nextId, txn, portions>>

\* --------------------------------------- ProductService.delete_product_batch
DeleteProductBatch(product_batch_id) ==
    IF product_batch_id \notin DOMAIN batches
    THEN /\ last' = Call("delete_product_batch", "product_batch_not_found", NoResponse)
         /\ UNCHANGED <<products, users,
                        ingredients, ingredients_batch, batches, sales, nextCode, nextId, txn, portions>>
    ELSE /\ batches' = [b \in DOMAIN batches \ {product_batch_id} |-> batches[b]]
         /\ last' = Call("delete_product_batch", "none", NoResponse)
         /\ UNCHANGED <<products, users,
                        ingredients, ingredients_batch, sales, nextCode, nextId, txn, portions>>

\* ---------------------------------------------------- ProductService.delete
\* ProductRepository.delete(product_id=...) issues DELETE FROM products WHERE
\* id = ..., which does not run the ORM cascade of ProductModel.products_batch
\* and ProductModel.portions, and the foreign keys carry no ON DELETE rule.
\* With rows still referring to the product, a store that enforces the
\* foreign keys refuses the statement (IntegrityError), and a store that does
\* not deletes the product row alone
DeleteProduct(product_id) ==
    IF product_id \notin DOMAIN products
    THEN /\ last' = Call("delete_product", "product_not_found", NoResponse)
         /\ UNCHANGED <<products, users, ingredients, ingredients_batch, batches, sales,
                        nextCode, nextId, txn, portions>>
    ELSE \E enforced \in BOOLEAN :
         IF enforced /\ (\/ BatchesOf(batches, product_id) # {}
                         \/ \E k \in 1..Len(portions) : portions[k].product_id = product_id)
         THEN /\ last' = Call("delete_product", "integrity_error", NoResponse)
              /\ UNCHANGED <<products, users, ingredients, ingredients_batch, batches,
                             sales, nextCode, nextId, txn, portions>>
         ELSE /\ products' = [p \in DOMAIN products \ {product_id} |-> products[p]]
              /\ last' = Call("delete_product", "none", NoResponse)
              /\ UNCHANGED <<users, ingredients, ingredients_batch, batches, sales,
                             nextCode, nextId, txn, portions>>

\* ------------------------------------------------- IngredientService.delete
\* db_session.delete(ingredient) runs the ORM cascade ("all, delete-orphan")
\* of IngredientModel.ingredients_batch and IngredientModel.portions
DeleteIngredient(ingredient_id) ==
    IF ~IngredientExists(ingredients, ingredient_id)
    THEN /\ last' = Call("delete_ingredient", "ingredient_not_found", NoResponse)
         /\ UNCHANGED <<products, users, ingredients, ingredients_batch, batches, sales,
                        nextCode, nextId, txn, portions>>
    ELSE /\ ingredients' = [ingredients EXCEPT ![ingredient_id] = NoIngredient]
         /\ ingredients_batch' =
               LET Other(row) == row.ingredient_id # ingredient_id
               IN  SelectSeq(ingredients_batch, Other)
         /\ portions' =
               LET Other(row) == row.ingredient_id # ingredient_id
               IN  SelectSeq(portions, Other)
         /\ last' = Call("delete_ingredient", "none", NoResponse)
         /\ UNCHANGED <<products, users, batches, sales, nextCode, nextId, txn>>

\* ------------------------------------------------------------ specification
NoCall == Call("none", "none", NoResponse)

\* a seeded store: both products, one seller, p1 with two dated batches and
\* p2 with one
SeedBatches ==
    [b \in {1, 2, 3} |->
        [product_id |-> IF b = 3 THEN "p2" ELSE "p1", validity |-> IF b = 2 THEN 2 ELSE 1,
         quantity |-> MaxQty]]

Init ==
    /\ products = [p \in ProductIds |-> [price_sale |-> 1]]
    /\ users = {"u1"}
    /\ batches = SeedBatches
    /\ sales = <<>>
    /\ nextCode = 1
    /\ nextId = 1
    /\ txn = [t \in Sessions |-> IdleTxn]
    /\ ingredients = <<>>
    /\ ingredients_batch = <<>>
    /\ portions = <<>>
    /\ last = NoCall

NoteItems == [product_id : ProductIds, user_id : UserIds, quantity : {1, MaxSaleQty}]

NoteRequests == [1..2 -> NoteItems]

Next ==
    \/ \E request \in NoteItems : AddSaleRequest(request)
    \/ \E reqs \in NoteRequests : AddSaleNoteRequest(reqs)
    \/ \E sale_code \in 1..MaxCodes : ConfirmSale(sale_code)
    \/ \E sale_code \in 1..MaxCodes : CancelSaleNote(sale_code)
    \/ \E sale_code \in 1..MaxCodes : GetSaleNoteBySaleCode(sale_code)
    \/ \E p \in ProductIds, price \in Prices : UpdateProduct(p, price)

Spec == Init /\ [][Next]_vars

\* the stock ledger alone: any batch table over three batch rows (two of p1,
\* the third of either product), then single sales and batch deletions
StockTables ==
    { bs \in [{1, 2, 3} -> [product_id : ProductIds, validity : Validities, quantity : 0..MaxQty]] :
        bs[1].product_id = "p1" /\ bs[2].product_id = "p1" }

InitStock ==
    /\ products = [p \in ProductIds |-> [price_sale |-> 1]]
    /\ users = {"u1"}
    /\ batches \in StockTables
    /\ sales = <<>>
    /\ nextCode = MaxCodes
    /\ nextId = 1
    /\ txn = [t \in Sessions |-> IdleTxn]
    /\ ingredients = <<>>
    /\ ingredients_batch = <<>>
    /\ portions = <<>>
    /\ last = NoCall

NextStock ==
    \/ \E request \in SaleRequests : AddSaleRequest(request)
    \/ \E b \in BatchIds : DeleteProductBatch(b)

SpecStock == InitStock /\ [][NextStock]_vars

\* the product ledger: batch tables over three rows that differ in owner and
\* quantity and in having an expiry date or none, then sales and batch
\* operations on them
LedgerTables ==
    { bs \in [{1, 2, 3} -> [product_id : ProductIds, validity : {NoValidity, 1},
                            quantity : 0..MaxQty]] :
        bs[1].product_id = "p1" /\ bs[2].product_id = "p1" }

InitLedger ==
    /\ products = [p \in ProductIds |-> [price_sale |-> 1]]
    /\ users = {"u1"}
    /\ batches \in LedgerTables
    /\ sales = <<>>
    /\ nextCode = MaxCodes
    /\ nextId = 1
    /\ txn = [t \in Sessions |-> IdleTxn]
    /\ ingredients = <<>>
    /\ ingredients_batch = <<>>
    /\ portions = <<>>
    /\ last = NoCall

NextLedger ==
    \/ \E request \in SaleRequests : AddSaleRequest(request)
    \/ \E b \in BatchIds : DeleteProductBatch(b)

SpecLedger == InitLedger /\ [][NextLedger]_vars

\* the product catalogue from an empty database: a product is created with
\* its initial batch, batches are added and deleted (also for a product id
\* that was never created), one sale is made and products are read back
ProductRequests ==
    [price_sale : {1}, quantity : {0, MaxQty}, validity : {NoValidity, 1}, recipe : {NoRecipe}]

\* a batch request names a product that exists or an id that no product has
\* (an id not generated yet cannot be named: ids are uuid4 strings)
ProductBatchRequests ==
    [product_id : ProductIds \cup {UnknownProductId}, validity : {1}, quantity : {-1, MaxQty}]

\* sales of one unit or of a whole initial batch
ProductSaleRequests == [product_id : ProductIds, user_id : UserIds, quantity : {1, MaxQty}]

InitProduct ==
    /\ products = <<>>
    /\ users = {"u1"}
    /\ batches = <<>>
    /\ sales = <<>>
    /\ nextCode = MaxCodes
    /\ nextId = 1
    /\ txn = [t \in Sessions |-> IdleTxn]
    /\ ingredients = <<>>
    /\ ingredients_batch = <<>>
    /\ portions = <<>>
    /\ last = NoCall

NextProduct ==
    \/ \E request \in ProductRequests : AddProduct(request)
    \/ \E request \in ProductBatchRequests :
          /\ request.product_id \in DOMAIN products \cup {UnknownProductId}
          /\ AddProductBatch(request)
    \/ \E request \in ProductSaleRequests : AddSaleRequest(request)
    \/ \E p \in ProductIds : GetProductById(p)
    \/ \E b \in BatchIds : DeleteProductBatch(b)
    \/ \E model \in IngredientBatchModels : AddIngredientBatch(model)

SpecProduct == InitProduct /\ [][NextProduct]_vars

\* the batch ledger of one product from an empty database: creation, batch
\* add, batch update, one sale, its confirmation and its cancellation
ProductBatchUpdates ==
    {r \in [validity : {NoValidity, 1}, has_quantity : BOOLEAN, quantity : {-1, MaxQty}] :
        ~r.has_quantity => r.quantity = MaxQty}

NextBatch ==
    \/ \E request \in ProductRequests : AddProduct(request)
    \/ \E request \in ProductBatchRequests :
          /\ request.product_id \in DOMAIN products
          /\ AddProductBatch(request)
    \/ \E b \in BatchIds, request \in ProductBatchUpdates : UpdateProductBatch(b, request)
    \/ \E request \in ProductSaleRequests : AddSaleRequest(request)
    \/ \E sale_code \in 1..MaxCodes : ConfirmSale(sale_code)
    \/ \E sale_code \in 1..MaxCodes : CancelSaleNote(sale_code)

SpecBatch == InitProduct /\ [][NextBatch]_vars

\* the ingredient ledger from an empty database
NextIngredient ==
    \/ \E request \in IngredientRequests : IngredientServiceAdd(request)
    \/ \E model \in IngredientKeys : IngredientRepositoryAdd(model)
    \/ \E model \in IngredientBatchModels : AddIngredientBatch(model)

SpecIngredient == InitProduct /\ [][NextIngredient]_vars

\* the catalogue with recipes, from an empty database: ingredients are added
\* and deleted, a product is created with a recipe whose portions name
\* ingredients that exist, were deleted, or never existed, and is deleted
RecipeProductRequests ==
    [price_sale : {1}, quantity : {MaxQty}, validity : {1}, recipe : Recipes]

NextRecipe ==
    \/ \E request \in IngredientRequests : IngredientServiceAdd(request)
    \/ \E request \in RecipeProductRequests :
          /\ \A k \in 1..Len(request.recipe) :
                request.recipe[k] \in 1..Len(ingredients) \cup {MaxIngredients + 1}
          /\ AddProduct(request)
    \/ \E b \in BatchIds : DeleteProductBatch(b)
    \/ \E p \in ProductIds : DeleteProduct(p)
    \/ \E i \in 1..(MaxIngredients + 1) : DeleteIngredient(i)

SpecRecipe == InitProduct /\ [][NextRecipe]_vars

\* ----------------------------------- concurrent sales, one session each
\* SaleRepository.add run by two requests at once.  Each transaction first
\* runs local_add against the rows it reads (there is no lock and no version
\* column), which leaves the modified batch objects and the new Sale in its
\* session, and later commits: the flush issues UPDATE products_batch SET
\* quantity = <the value computed in memory> for every modified batch and
\* INSERTs the Sale.
DirtyBatches(before, after) ==
    [b \in {x \in DOMAIN before : after[x].quantity # before[x].quantity} |-> after[b].quantity]

TxLocalAdd(t, request) ==
    /\ txn[t].pc = "idle"
    /\ nextCode <= MaxCodes
    /\ LET err1 == MapRequestError(products, request)
           model == MapRequestToModel(products, request, CodeGenerator, IdGenerator(1))
           err2 == IF err1 # "none" THEN err1
                   ELSE LocalAddError(products, users, batches, model)
       IN  IF err2 # "none"
           THEN /\ txn' = [txn EXCEPT ![t].pc = "failed"]
                /\ last' = Call("add_sale", err2, NoResponse)
                /\ UNCHANGED <<products, users,
                               ingredients, ingredients_batch, batches, sales, nextCode, nextId, portions>>
           ELSE \E order \in OrderByValidity(batches, request.product_id) :
                /\ txn' = [txn EXCEPT ![t] = [pc |-> "staged", model |-> model,
                              dirty |-> DirtyBatches(batches, LocalAdd(batches, order, model))]]
                /\ nextCode' = nextCode + 1
                /\ nextId' = nextId + 1
                /\ last' = Call("local_add", "none", NoResponse)
                /\ UNCHANGED <<products, users, ingredients, ingredients_batch, batches, sales, portions>>

\* a flush in which the modified batch objects are not tracked by the session
FlushBatchesUntracked(bs, dirty) == bs

FlushBatches(bs, dirty) ==
    [b \in DOMAIN bs |-> IF b \in DOMAIN dirty THEN [bs[b] EXCEPT !.quantity = dirty[b]] ELSE bs[b]]

TxCommit(t) ==
    /\ txn[t].pc = "staged"
    /\ batches' = FlushBatches(batches, txn[t].dirty)
    /\ sales' = Append(sales, txn[t].model)
    /\ txn' = [txn EXCEPT ![t].pc = "committed"]
    /\ last' = Call("add_sale", "type_error", NoResponse)
    /\ UNCHANGED <<products, users, ingredients, ingredients_batch, nextCode, nextId, portions>>

NextConc ==
    \/ \E t \in Sessions, request \in NoteItems : TxLocalAdd(t, request)
    \/ \E t \in Sessions : TxCommit(t)

SpecConc == Init /\ [][NextConc]_vars

\* ------------------------------ SaleRepository.add on a list, shared session
\* AsyncDatabaseManager.get_session hands every caller the one active
\* session.  Given a list, add runs local_add item by item and commits once
\* at the end; local_add stages the modified batches and the Sale in the
\* session.  When an item fails the exception leaves add before the commit
\* and nothing rolls the session back: what the earlier items staged stays
\* in it, and the next commit on that session writes it.
\* (txn[t] holds what one failed call left behind; a list is given to a
\* session that holds nothing)
RECURSIVE ListLoop(_, _, _, _, _)
ListLoop(ps, us, bs, models, k) ==
    IF k > Len(models) THEN {[batches |-> bs, err |-> "none", staged |-> k - 1]}
    ELSE LET err == LocalAddError(ps, us, bs, models[k])
         IN  IF err # "none"
             THEN {[batches |-> bs, err |-> err, staged |-> k - 1]}
             ELSE UNION { ListLoop(ps, us, LocalAdd(bs, order, models[k]), models, k + 1)
                          : order \in OrderByValidity(bs, models[k].product_id) }

SaleRepositoryAddList(t, reqs) ==
    /\ txn[t].pc = "idle"
    /\ nextCode <= MaxCodes
    /\ nextId + Len(reqs) - 1 <= MaxIds
    /\ LET models == [k \in 1..Len(reqs) |->
                         MapRequestToModel(products, reqs[k], CodeGenerator, IdGenerator(k))]
       IN  \E out \in ListLoop(products, users, batches, models, 1) :
              IF out.err = "none"
              THEN /\ batches' = out.batches
                   /\ sales' = sales \o models
                   /\ nextCode' = nextCode + 1
                   /\ nextId' = nextId + Len(models)
                   /\ last' = Call("repository_add", "none", NoResponse)
                   /\ UNCHANGED <<products, users, ingredients, ingredients_batch,
                                  portions, txn>>
              ELSE /\ txn' = IF out.staged = 0 THEN txn
                             ELSE [txn EXCEPT ![t] =
                                     [pc |-> "staged", model |-> models[1],
                                      dirty |-> DirtyBatches(batches, out.batches)]]
                   /\ nextCode' = IF out.staged = 0 THEN nextCode ELSE nextCode + 1
                   /\ nextId' = nextId + out.staged
                   /\ last' = Call("repository_add", out.err, NoResponse)
                   /\ UNCHANGED <<products, users, ingredients, ingredients_batch,
                                  portions, batches, sales>>

\* ProductService.update on session t: ProductRepository.update is a bare
\* commit, which flushes everything the session holds
UpdateProductOnSession(t, product_id, price_sale) ==
    IF product_id \notin DOMAIN products
    THEN /\ last' = Call("update_product", "product_not_found", NoResponse)
         /\ UNCHANGED <<products, users, ingredients, ingredients_batch, batches, sales,
                        nextCode, nextId, txn, portions>>
    ELSE /\ products' = [products EXCEPT ![product_id].price_sale = price_sale]
         /\ batches' = FlushBatches(batches, txn[t].dirty)
         /\ sales' = IF txn[t].pc = "staged" THEN Append(sales, txn[t].model) ELSE sales
         /\ txn' = [txn EXCEPT ![t] = IdleTxn]
         /\ last' = Call("update_product", "none", NoResponse)
         /\ UNCHANGED <<users, ingredients, ingredients_batch, nextCode, nextId, portions>>

PairRequests == [1..2 -> [product_id : ProductIds, user_id : {"u1"}, quantity : 1..MaxSaleQty]]

NextSession ==
    \/ \E t \in Sessions, reqs \in PairRequests : SaleRepositoryAddList(t, reqs)
    \/ \E t \in Sessions, p \in ProductIds, price \in Prices :
          UpdateProductOnSession(t, p, price)

SpecSession == Init /\ [][NextSession]_vars

\* the seeded store with both users registered: sale notes whose items name
\* either seller, and cancellations
InitSellers ==
    /\ products = [p \in ProductIds |-> [price_sale |-> 1]]
    /\ users = UserIds
    /\ batches = SeedBatches
    /\ sales = <<>>
    /\ nextCode = 1
    /\ nextId = 1
    /\ txn = [t \in Sessions |-> IdleTxn]
    /\ ingredients = <<>>
    /\ ingredients_batch = <<>>
    /\ portions = <<>>
    /\ last = NoCall

NextSellers ==
    \/ \E reqs \in NoteRequests : AddSaleNoteRequest(reqs)
    \/ \E sale_code \in 1..MaxCodes : CancelSaleNote(sale_code)

SpecSellers == InitSellers /\ [][NextSellers]_vars

\* ===================================================================== claims
NewRows == { i \in 1..Len(sales') : \A j \in 1..Len(sales) : sales[j].id # sales'[i].id }

\* C1: every successful sale (SaleRepository.add committed a Sale row) lowers
\* the summed batch quantity of its product by exactly the quantity sold, and
\* leaves no batch quantity negative.
C1_StockConservation ==
    [][\A request \in SaleRequests :
          (AddSaleRequest(request) /\ NewRows # {}) =>
             /\ StockOf(batches', request.product_id)
                  = StockOf(batches, request.product_id) - request.quantity
             /\ \A b \in DOMAIN batches' : batches'[b].quantity >= 0]_vars

\* C2: a sale note is all or nothing: when an item of the request fails, no
\* Sale row and no batch decrement of the earlier items is persisted.
C2_NoteAtomicity ==
    [][\A reqs \in NoteRequests :
          AddSaleNoteRequest(reqs) =>
             /\ Cardinality(NewRows) \in {0, Len(reqs)}
             /\ NewRows = {} => batches' = batches]_vars

\* NotFoundError carries status 404 (src/app/core/errors.py:43-61)
NotFoundErrors ==
    {"product_not_found", "user_not_found", "product_batch_not_found",
     "not_enough_product_in_stock", "sale_note_not_found"}

\* C3 as stated: a sale asking for more than the summed batch quantity fails
\* with 'not enough product in stock', changes no batch and creates no row.
C3_NotEnoughInStock ==
    [][\A request \in SaleRequests :
          (/\ request.quantity > StockOf(batches, request.product_id)
           /\ AddSaleRequest(request)) =>
             /\ last'.err = "not_enough_product_in_stock"
             /\ batches' = batches
             /\ sales' = sales]_vars

\* C3 amended: such a sale of an existing product fails with a NotFound-class
\* error, changes no batch and creates no row; the error is 'user not found'
\* when the seller does not exist, 'product batch not found' when the product
\* has no batch, and 'not enough product in stock' otherwise.
C3_NotEnoughInStockAmended ==
    [][\A request \in SaleRequests :
          (/\ request.product_id \in DOMAIN products
           /\ request.quantity > StockOf(batches, request.product_id)
           /\ AddSaleRequest(request)) =>
             /\ last'.err \in NotFoundErrors
             /\ last'.err =
                  (IF request.user_id \notin users THEN "user_not_found"
                   ELSE IF \A b \in DOMAIN batches : batches[b].product_id # request.product_id
                        THEN "product_batch_not_found"
                        ELSE "not_enough_product_in_stock")
             /\ batches' = batches
             /\ sales' = sales]_vars

C3_Witness ==
    /\ last.op = "add_sale"
    /\ last.err = "not_enough_product_in_stock"
    /\ \E b \in DOMAIN batches : batches[b].quantity > 0

\* C4: a successful sale of a product whose batches have distinct expiry dates
\* empties the batches in ascending expiry order: some batch k is the last one
\* touched, every batch expiring before k ends at 0, k loses what was still
\* needed, every batch expiring after k is unchanged.
DistinctExpiry(bs, p) ==
    \A b1, b2 \in DOMAIN bs :
        (bs[b1].product_id = p /\ bs[b2].product_id = p) =>
            /\ bs[b1].validity # NoValidity
            /\ b1 # b2 => bs[b1].validity # bs[b2].validity

C4_EarliestExpiryFirst ==
    [][\A request \in SaleRequests :
          (AddSaleRequest(request) /\ NewRows # {}
             /\ DistinctExpiry(batches, request.product_id)) =>
             \E k \in DOMAIN batches :
                /\ batches[k].product_id = request.product_id
                /\ LET mine == {b \in DOMAIN batches : batches[b].product_id = request.product_id}
                       earlier == {b \in mine : batches[b].validity < batches[k].validity}
                       later == {b \in mine : batches[b].validity > batches[k].validity}
                       remaining == request.quantity
                                      - SumOver([b \in DOMAIN batches |-> batches[b].quantity], earlier)
                   IN  /\ \A b \in earlier : batches'[b].quantity = 0
                       /\ batches'[k].quantity = batches[k].quantity - remaining
                       /\ \A b \in later : batches'[b].quantity = batches[b].quantity]_vars

\* C5: with no lock and no version on the batch rows, a transaction that
\* commits stores the quantities it computed from its own read and inserts
\* its Sale, whatever was committed since that read; so two sales can both
\* succeed on stock that covers only one of them.
C5_CommitIgnoresInterveningCommits ==
    [][\A t \in Sessions :
          (txn[t].pc = "staged" /\ txn'[t].pc = "committed") =>
             /\ \A b \in DOMAIN txn[t].dirty : batches'[b].quantity = txn[t].dirty[b]
             /\ Len(sales') = Len(sales) + 1]_vars

\* more units of p1 are recorded as sold than p1 ever had in stock
C5_Oversold ==
    /\ \A t \in Sessions : txn[t].pc = "committed"
    /\ \A i \in 1..Len(sales) : sales[i].product_id = "p1" /\ sales[i].quantity > 0
    /\ SumSeq([i \in 1..Len(sales) |-> sales[i].quantity]) > StockOf(SeedBatches, "p1")

\* C6: the Sale rows one request inserts all carry one sale_code, and no row
\* inserted by an earlier request carries that code.
C6_OneCodePerRequest ==
    [][NewRows # {} =>
          LET c == sales'[CHOOSE i \in NewRows : TRUE].sale_code
          IN  /\ \A i \in NewRows : sales'[i].sale_code = c
              /\ \A j \in 1..Len(sales) : sales[j].sale_code # c]_vars

C6_Witness ==
    /\ \E i, j \in 1..Len(sales) : i # j /\ sales[i].sale_code = sales[j].sale_code
    /\ \E i, j \in 1..Len(sales) : sales[i].sale_code # sales[j].sale_code

\* C7: a sale note request whose items were all created returns a note with
\* one line per item, the distinct products of the items, their seller, and
\* total_value = sum of price_sale * quantity over the items.
C7_NoteReturned ==
    [][\A reqs \in NoteRequests :
          (AddSaleNoteRequest(reqs) /\ Cardinality(NewRows) = Len(reqs)) =>
             LET r == last'.response IN
             /\ r.returned
             /\ Len(r.notes) = Len(reqs)
             /\ r.products = {reqs[i].product_id : i \in 1..Len(reqs)}
             /\ \A i \in 1..Len(reqs) : reqs[i].user_id = r.seller
             /\ r.total_value =
                  SumSeq([i \in 1..Len(reqs) |->
                            products[reqs[i].product_id].price_sale * reqs[i].quantity])]_vars

\* C8: a Sale row is inserted with value = price_sale at that moment times
\* quantity; no later step changes the value of an existing row, and
\* ProductService.update changes no Sale row and no note total.
NoteTotal(rows, c) ==
    SumSeq([i \in 1..Len(rows) |-> IF rows[i].sale_code = c THEN rows[i].value ELSE 0])

C8_ValueFixedAtSale ==
    [][/\ \A i \in NewRows :
             sales'[i].value = products[sales'[i].product_id].price_sale * sales'[i].quantity
       /\ \A i \in 1..Len(sales'), j \in 1..Len(sales) :
             sales'[i].id = sales[j].id => sales'[i].value = sales[j].value
       /\ last'.op = "update_product" =>
             /\ sales' = sales
             /\ \A c \in 1..MaxCodes : NoteTotal(sales', c) = NoteTotal(sales, c)]_vars

C8_Witness ==
    /\ last.op = "update_product"
    /\ \E i \in 1..Len(sales) :
          sales[i].value # products[sales[i].product_id].price_sale * sales[i].quantity

\* C9: confirm_sale on a code that has rows sets is_paid on exactly the rows
\* of that code and changes nothing else in any Sale row or batch.
C9_ConfirmFrame ==
    [][\A c \in 1..MaxCodes :
          ((\E i \in 1..Len(sales) : sales[i].sale_code = c) /\ ConfirmSale(c)) =>
             /\ Len(sales') = Len(sales)
             /\ \A i \in 1..Len(sales) :
                   sales'[i] = [sales[i] EXCEPT
                                  !.is_paid = IF sales[i].sale_code = c THEN TRUE ELSE @]
             /\ batches' = batches]_vars

C9_Witness ==
    /\ last.op = "confirm_sale"
    /\ \E i, j \in 1..Len(sales) :
          i # j /\ sales[i].sale_code = sales[j].sale_code /\ sales[i].is_paid /\ sales[j].is_paid
    /\ \E i \in 1..Len(sales) : ~sales[i].is_paid

\* C10: cancel_sale_note on a code that has rows deletes exactly the rows of
\* that code and leaves every batch as the sale left it.
C10_CancelFrame ==
    [][\A c \in 1..MaxCodes :
          ((\E i \in 1..Len(sales) : sales[i].sale_code = c) /\ CancelSaleNote(c)) =>
             /\ LET Other(r) == r.sale_code # c IN sales' = SelectSeq(sales, Other)
             /\ batches' = batches]_vars

C10_Witness ==
    /\ last.op = "cancel_sale_note"
    /\ last.err = "none"
    /\ sales # <<>>
    /\ \A i \in 1..Len(sales) : sales[i].product_id = "p2"
    /\ StockOf(batches, "p1") < StockOf(SeedBatches, "p1")

\* C11: confirm_sale and cancel_sale_note on a code that no Sale row carries
\* fail with 'sale note not found' and change no Sale row and no batch.
C11_UnknownCodeNotFound ==
    [][\A c \in 1..MaxCodes :
          ((\A i \in 1..Len(sales) : sales[i].sale_code # c)
           /\ (ConfirmSale(c) \/ CancelSaleNote(c))) =>
             /\ last'.err = "sale_note_not_found"
             /\ sales' = sales
             /\ batches' = batches]_vars

C11_Witness ==
    /\ last.op \in {"confirm_sale", "cancel_sale_note"}
    /\ last.err = "sale_note_not_found"
    /\ sales # <<>>

\* C12: sale-note retrieval on a code that no Sale row carries fails with
\* 'sale note not found'.
C12_RetrievalNotFound ==
    [][\A c \in 1..MaxCodes :
          ((\A i \in 1..Len(sales) : sales[i].sale_code # c)
           /\ GetSaleNoteBySaleCode(c)) =>
             last'.err = "sale_note_not_found"]_vars

\* C13: a sale of an unknown product fails with 'product not found', a sale
\* of a known product by an unknown user fails with 'user not found'; neither
\* changes a batch nor creates a Sale row.
C13_UnknownProductOrUser ==
    [][\A request \in SaleRequests :
          ((request.product_id \notin DOMAIN products \/ request.user_id \notin users)
           /\ AddSaleRequest(request)) =>
             /\ last'.err = IF request.product_id \notin DOMAIN products
                            THEN "product_not_found" ELSE "user_not_found"
             /\ batches' = batches
             /\ sales' = sales]_vars

C13_Witness ==
    /\ last.op = "add_sale"
    /\ last.err = "user_not_found"
    /\ sales = <<>>
    /\ \E b \in DOMAIN batches : batches[b].quantity > 0

\* C14: a sale of an existing product that has no batch row fails with a
\* NotFound-class error ('product batch not found' when the user exists) and
\* creates no Sale row.
C14_NoBatchIsNotFound ==
    [][\A request \in SaleRequests :
          (/\ request.product_id \in DOMAIN products
           /\ BatchesOf(batches, request.product_id) = {}
           /\ AddSaleRequest(request)) =>
             /\ last'.err \in NotFoundErrors
             /\ request.user_id \in users => last'.err = "product_batch_not_found"
             /\ sales' = sales
             /\ batches' = batches]_vars

C14_Witness ==
    /\ last.op = "add_sale"
    /\ last.err = "product_batch_not_found"
    /\ sales = <<>>

\* C15: a sale removes no batch row and changes no batch's product or expiry;
\* a batch row disappears only in a delete_product_batch call.
C15_SaleKeepsBatchRows ==
    [][last'.op # "delete_product_batch" =>
          /\ DOMAIN batches' = DOMAIN batches
          /\ \A b \in DOMAIN batches :
                /\ batches'[b].product_id = batches[b].product_id
                /\ batches'[b].validity = batches[b].validity]_vars

\* a sale of a positive quantity has just emptied every batch of its product,
\* and the emptied rows are still there
C15_Witness ==
    /\ last.op = "add_sale"
    /\ Len(sales) = 1
    /\ sales[1].quantity > 0
    /\ BatchesOf(batches, sales[1].product_id) # {}
    /\ \A b \in BatchesOf(batches, sales[1].product_id) : batches[b].quantity = 0

\* C17: sale-note retrieval on a code that has rows returns the note of those
\* rows (their total and exactly those line items), a function of the tables
\* alone, and writes nothing.
C17_RetrievalIsPure ==
    [][\A c \in 1..MaxCodes :
          ((\E i \in 1..Len(sales) : sales[i].sale_code = c)
           /\ GetSaleNoteBySaleCode(c)) =>
             /\ last'.response.returned
             /\ last'.response.total_value = NoteTotal(sales, c)
             /\ Range(last'.response.notes)
                  = {sales[i] : i \in {j \in 1..Len(sales) : sales[j].sale_code = c}}
             /\ sales' = sales
             /\ batches' = batches]_vars

\* C16: a read of the product right after a sale that took its whole stock
\* reports quantity 0 and batches None.
C16_SoldOutReportsNoBatches ==
    [][\A p \in ProductIds :
          (/\ last.op = "add_sale"
           /\ last.err = "type_error"
           /\ sales # <<>>
           /\ sales[Len(sales)].product_id = p
           /\ sales[Len(sales)].quantity > 0
           /\ StockOf(batches, p) = 0
           /\ GetProductById(p)) =>
             /\ last'.response.quantity = 0
             /\ last'.response.batches_is_none]_vars

\* C18 as stated: adding an ingredient equal in (name, mark, measure,
\* description, value) to an existing one, by the service or by the
\* repository, leaves exactly one row with that tuple, and that row has one
\* more batch than before.
BatchesOfIngredient(rows, id) == {k \in 1..Len(rows) : rows[k].ingredient_id = id}

C19_BatchOwnerMustExist ==
    [][/\ \A request \in ProductBatchRequests :
             (request.product_id \notin DOMAIN products /\ AddProductBatch(request)) =>
                /\ last'.err = "product_not_found"
                /\ batches' = batches
       /\ \A model \in IngredientBatchModels :
             (model.ingredient_id \notin 1..Len(ingredients) /\ AddIngredientBatch(model)) =>
                /\ last'.err = "ingredient_not_found"
                /\ ingredients_batch' = ingredients_batch]_vars

PortionsOf(rows, p) == {k \in 1..Len(rows) : rows[k].product_id = p}

C21_ProductCreationAtomic ==
    [][\A request \in RecipeProductRequests :
          AddProduct(request) =>
             \/ /\ products' = products
                /\ batches' = batches
                /\ portions' = portions
             \/ \E p \in DOMAIN products' \ DOMAIN products :
                   /\ Cardinality(BatchesOf(batches', p)) = 1
                   /\ Cardinality(PortionsOf(portions', p)) = Len(request.recipe)]_vars

\* C26: deleting a product or an ingredient leaves no batch and no portion
\* that refers to the deleted parent.
C26_DeleteLeavesNoOrphan ==
    [][last'.op \in {"delete_product", "delete_ingredient"} =>
          /\ \A b \in DOMAIN batches' :
                batches'[b].product_id \in DOMAIN products
                   => batches'[b].product_id \in DOMAIN products'
          /\ \A k \in 1..Len(portions') :
                /\ portions'[k].product_id \in DOMAIN products
                      => portions'[k].product_id \in DOMAIN products'
                /\ IngredientExists(ingredients, portions'[k].ingredient_id)
                      => IngredientExists(ingredients', portions'[k].ingredient_id)
          /\ \A k \in 1..Len(ingredients_batch') :
                IngredientExists(ingredients, ingredients_batch'[k].ingredient_id)
                   => IngredientExists(ingredients', ingredients_batch'[k].ingredient_id)]_vars

\* C22: in every reachable state every product batch holds a quantity that
\* is not negative.
C22_BatchQuantityNonNegative == \A b \in DOMAIN batches : batches[b].quantity >= 0

\* C23: a Sale row keeps its product_id, user_id, quantity, value and
\* sale_code for as long as it exists; a step changes a row only by setting
\* is_paid in confirm_sale, and removes a row only in cancel_sale_note.
C23_SaleRowImmutable ==
    [][/\ \A j \in 1..Len(sales) :
             \/ \E i \in 1..Len(sales') :
                   /\ sales'[i].id = sales[j].id
                   /\ [sales'[i] EXCEPT !.is_paid = sales[j].is_paid] = sales[j]
                   /\ sales'[i] # sales[j] => last'.op = "confirm_sale"
             \/ /\ \A i \in 1..Len(sales') : sales'[i].id # sales[j].id
                /\ last'.op = "cancel_sale_note"]_vars

\* a paid row whose product has been re-priced since, after a cancellation of
\* another code
C23_Witness ==
    /\ last.op = "cancel_sale_note"
    /\ last.err = "none"
    /\ \E i \in 1..Len(sales) :
          /\ sales[i].is_paid
          /\ sales[i].value # products[sales[i].product_id].price_sale * sales[i].quantity

\* C24: a Sale row is created unpaid; it becomes paid only in a confirm_sale
\* of its own sale code; a paid row stays paid while it exists.
C24_PaidOnlyByConfirm ==
    [][/\ \A i \in NewRows : ~sales'[i].is_paid
       /\ \A j \in 1..Len(sales), i \in 1..Len(sales') :
             sales'[i].id = sales[j].id =>
                /\ sales[j].is_paid => sales'[i].is_paid
                /\ (~sales[j].is_paid /\ sales'[i].is_paid) =>
                      ConfirmSale(sales[j].sale_code)]_vars

\* one code confirmed, then another: both stay paid
C24_Witness ==
    /\ last.op = "confirm_sale"
    /\ \E i, j \in 1..Len(sales) :
          /\ sales[i].sale_code # sales[j].sale_code
          /\ sales[i].is_paid
          /\ sales[j].is_paid

\* C25: the depletion is a function of the product's batches and of the
\* quantity asked for: whichever order the store returns the batches in, a
\* successful sale leaves the same quantities in the same batches.
C25_DepletionDeterministic ==
    [][\A request \in SaleRequests :
          (AddSaleRequest(request) /\ NewRows # {}) =>
             \A order \in OrderByValidity(batches, request.product_id) :
                batches' = LocalAdd(batches, order, [quantity |-> request.quantity])]_vars

\* C27: with interleaved, unlocked sale transactions, every quantity a sale
\* stages for a batch lies between 0 and the quantity it read for that batch,
\* a commit writes exactly the staged quantities, and so no batch quantity
\* is negative in any interleaving.
C27_WritesWithinRead ==
    [][/\ \A t \in Sessions :
             (txn[t].pc = "idle" /\ txn'[t].pc = "staged") =>
                \A b \in DOMAIN txn'[t].dirty :
                   /\ 0 <= txn'[t].dirty[b]
                   /\ txn'[t].dirty[b] <= batches[b].quantity
       /\ \A t \in Sessions :
             (txn[t].pc = "staged" /\ txn'[t].pc = "committed") =>
                \A b \in DOMAIN batches' :
                   batches'[b].quantity = IF b \in DOMAIN txn[t].dirty
                                          THEN txn[t].dirty[b] ELSE batches[b].quantity
       /\ \A b \in DOMAIN batches' : batches'[b].quantity >= 0]_vars

\* two sales of one product, staged from the same read, both committed; the
\* second commit wrote a batch the first had already written
C27_Witness ==
    /\ \A t \in Sessions : txn[t].pc = "committed"
    /\ Len(sales) = Cardinality(Sessions)
    /\ \A i \in 1..Len(sales) : sales[i].product_id = sales[1].product_id
    /\ \E b \in DOMAIN batches :
          \A t \in Sessions : b \in DOMAIN txn[t].dirty

\* C28: a SaleRepository.add that fails on item k of a list commits nothing
\* and leaves nothing staged in the session, so no later commit on that
\* session writes a batch decrement or a Sale row of the items before k.
C28_FailedAddLeavesNothing ==
    [][/\ (last'.op = "repository_add" /\ last'.err # "none") =>
             /\ batches' = batches
             /\ sales' = sales
             /\ \A t \in Sessions : txn'[t] = txn[t]
       /\ last'.op = "update_product" =>
             /\ batches' = batches
             /\ sales' = sales]_vars

\* C29: every Sale row has quantity > 0 and value >= 0.
C29_SaleQuantityPositive ==
    \A i \in 1..Len(sales) : sales[i].quantity > 0 /\ sales[i].value >= 0

\* C30: Sale rows that share a sale_code share their user_id.
C30_OneSellerPerCode ==
    \A i, j \in 1..Len(sales) :
        sales[i].sale_code = sales[j].sale_code => sales[i].user_id = sales[j].user_id

====
